---- MODULE Spec2Model ----
(***************************************************************************)
(* Model of the execution session in src/components/PythonEditor.tsx:      *)
(* the React state of PythonEditor, the initPyodide effect, the runPython  *)
(* click handler, the editor change handler, and the state of the embedded *)
(* interpreter (sys.stdout, the matplotlib figure registry) that the       *)
(* Python snippets passed to runPythonAsync read and write.                *)
(*                                                                         *)
(* Strings are sequences of tokens.  A source text is a sequence of        *)
(* statements; the empty sequence is the empty string.  Every              *)
(* runPythonAsync call is one step: the interpreter runs the snippet to    *)
(* completion and the handler continues up to its next await.              *)
(***************************************************************************)
EXTENDS Integers, Sequences, FiniteSets, TLC

(* ---------------------------------------------------------------- bounds *)
MaxRuns == 2

VARIABLES
    output,       \* useState("")                      line 26
    plots,        \* useState<string[]>([])            line 27
    isLoading,    \* useState(true)                    line 28
    isRunning,    \* useState(false)                   line 29
    pyodide,      \* useState<PyodideInterface|null>   line 30
    status,       \* useState("Initializing...")       line 31
    currentCode,  \* useState(defaultCode)             line 32
    editorText,   \* the text held by the Monaco <Editor>
    initPc,       \* position of the initPyodide callback
    engine,       \* state of the interpreter instance
    active,       \* runPython invocations in flight: run id -> [pc, code]
    nextRun,      \* id the next admitted runPython invocation gets
    results       \* exit path of every finished runPython invocation

vars == << output, plots, isLoading, isRunning, pyodide, status, currentCode,
           editorText, initPc, engine, active, nextRun, results >>

(* --------------------------------------------------------------- strings *)
Initializing == << "Initializing..." >>
LoadingPython == << "Loading Python environment..." >>
LoadingPackages == << "Loading NumPy and Matplotlib..." >>
Configuring == << "Configuring plotting..." >>
ReadyStatus == << "Ready!" >>
RunningText == << "Running..." >>
ExecutionCompleted == << "Execution completed" >>

\* `Error: ${(err as Error).message}`
ErrorText(msg) == << "Error: " >> \o msg

IsErrorText(s) == Len(s) >= 1 /\ s[1] = "Error: "

\* messages of the errors the interpreter can raise
UserMsg == << "x" >>
EngineMsg == << "engine" >>
RuntimeMsg == << "runtime" >>
PackageMsg == << "package" >>
BackendMsg == << "backend" >>
LoadMsgs == { RuntimeMsg, PackageMsg, BackendMsg }

(* ---------------------------------------------------------- source texts *)
PrintStmt == [op |-> "print", arg |-> 0]
RaiseStmt == [op |-> "raise", arg |-> 0]
\* plt.figure() is arg 0, plt.figure(n) is arg n
FigureStmt(n) == [op |-> "figure", arg |-> n]

\* the text the component starts with: one plt.figure(...) call, no print
defaultCode == << FigureStmt(0) >>

\* every text the editor is given here, the empty text included
Texts ==
    { << >>,
      defaultCode,
      << PrintStmt >>,
      << RaiseStmt >>,
      << PrintStmt, RaiseStmt >>,
      << FigureStmt(0), RaiseStmt >>,
      << FigureStmt(0), FigureStmt(0) >>,
      << PrintStmt, FigureStmt(0) >>,
      << FigureStmt(2), FigureStmt(1) >> }

(* ------------------------------------------------------------ the engine *)
NoFigs == {}

FigNums(figs) == { f.num : f \in figs }

SetMax(S) == CHOOSE m \in S : \A x \in S : x <= m
SetMin(S) == CHOOSE m \in S : \A x \in S : m <= x

\* plt.get_fignums(): the numbers of the open figures, ascending
RECURSIVE SortedNums(_)
SortedNums(S) ==
    IF S = {} THEN << >>
    ELSE << SetMin(S) >> \o SortedNums(S \ { SetMin(S) })

get_fignums(figs) == SortedNums(FigNums(figs))

FigByNum(figs, n) == CHOOSE f \in figs : f.num = n

\* plt.figure(arg) executed as statement k of run r
PltFigure(figs, arg, r, k) ==
    LET num == IF arg # 0 THEN arg
               ELSE IF figs = {} THEN 1 ELSE SetMax(FigNums(figs)) + 1
    IN  IF num \in FigNums(figs) THEN figs
        ELSE figs \cup { [num |-> num, run |-> r, k |-> k] }

\* fig.savefig(buf, format='png', ...) and base64: the image of a figure
\* shows the figure's content, which is the run and statement that drew it
Png(f) == [run |-> f.run, k |-> f.k]

\* the user source, statement by statement, against the interpreter state;
\* print writes to sys.stdout, which is the StringIO once redirected
RECURSIVE ExecStmts(_, _, _, _)
ExecStmts(code, k, r, st) ==
    IF k > Len(code) THEN st
    ELSE LET s == code[k] IN
         IF s.op = "raise" THEN [st EXCEPT !.raised = TRUE]
         ELSE IF s.op = "print"
              THEN ExecStmts(code, k + 1, r,
                             [st EXCEPT !.eng.buf =
                                 IF st.eng.redirected
                                 THEN st.eng.buf \o << "out" >>
                                 ELSE st.eng.buf])
         ELSE ExecStmts(code, k + 1, r,
                        [st EXCEPT !.eng.figs =
                            PltFigure(st.eng.figs, s.arg, r, k)])

RunUserCode(eng, code, r) == ExecStmts(code, 1, r, [eng |-> eng, raised |-> FALSE])

\* the figure extraction loop, stopped after `upto` figures
RECURSIVE PlotData(_, _, _)
PlotData(figs, nums, upto) ==
    IF upto = 0 \/ nums = << >> THEN [data |-> << >>, figs |-> figs]
    ELSE LET f == FigByNum(figs, Head(nums))
             rest == PlotData(figs \ { f }, Tail(nums), upto - 1)
         IN  [data |-> << Png(f) >> \o rest.data, figs |-> rest.figs]

(* ------------------------------------------------------------------ Init *)
Init ==
    /\ output = << >>
    /\ plots = << >>
    /\ isLoading = TRUE
    /\ isRunning = FALSE
    /\ pyodide = "null"
    /\ status = Initializing
    /\ currentCode = defaultCode
    /\ editorText = defaultCode
    /\ initPc = "mount"
    /\ engine = [loaded |-> FALSE, packages |-> FALSE, backend |-> "none",
                 switches |-> 0,
                 redirected |-> FALSE, buf |-> << >>, figs |-> NoFigs]
    /\ active = << >>
    /\ nextRun = 1
    /\ results = << >>

(* ------------------------------------------------ initPyodide (useEffect) *)
\* a catch block that also takes the spinner down
InitCatch_ClearsLoading(msg) ==
    /\ status' = ErrorText(msg)
    /\ initPc' = "failed"
    /\ isLoading' = FALSE
    /\ UNCHANGED pyodide

\* catch (err): setStatus(`Error: ...`); isLoading, pyodide are left alone
InitCatch(msg) ==
    /\ status' = ErrorText(msg)
    /\ initPc' = "failed"
    /\ UNCHANGED << isLoading, pyodide >>

\* the effect runs once after mount: setStatus, then await loadPyodide(...)
InitStart ==
    /\ initPc = "mount"
    /\ status' = LoadingPython
    /\ initPc' = "loadPyodide"
    /\ UNCHANGED << output, plots, isLoading, isRunning, pyodide, currentCode,
                    editorText, engine, active, nextRun, results >>

\* the handle stored as soon as the runtime is loaded
LoadPyodideOk_StoresHandle ==
    /\ initPc = "loadPyodide"
    /\ engine' = [engine EXCEPT !.loaded = TRUE]
    /\ status' = LoadingPackages
    /\ initPc' = "loadPackage"
    /\ pyodide' = "handle"
    /\ isLoading' = FALSE
    /\ UNCHANGED << output, plots, isRunning, currentCode, editorText, active,
                    nextRun, results >>

LoadPyodideOk ==
    /\ initPc = "loadPyodide"
    /\ engine' = [engine EXCEPT !.loaded = TRUE]
    /\ status' = LoadingPackages
    /\ initPc' = "loadPackage"
    /\ UNCHANGED << output, plots, isLoading, isRunning, pyodide, currentCode,
                    editorText, active, nextRun, results >>

LoadPyodideFail ==
    /\ initPc = "loadPyodide"
    /\ InitCatch(RuntimeMsg)
    /\ UNCHANGED << output, plots, isRunning, currentCode, editorText, engine,
                    active, nextRun, results >>

LoadPackageOk ==
    /\ initPc = "loadPackage"
    /\ engine' = [engine EXCEPT !.packages = TRUE]
    /\ status' = Configuring
    /\ initPc' = "configure"
    /\ UNCHANGED << output, plots, isLoading, isRunning, pyodide, currentCode,
                    editorText, active, nextRun, results >>

LoadPackageFail ==
    /\ initPc = "loadPackage"
    /\ InitCatch(PackageMsg)
    /\ UNCHANGED << output, plots, isRunning, currentCode, editorText, engine,
                    active, nextRun, results >>

\* plt.switch_backend('agg') returned: setPyodide, setIsLoading(false), Ready!
ConfigureOk ==
    /\ initPc = "configure"
    /\ engine' = [engine EXCEPT !.backend = "agg",
                                 !.switches = engine.switches + 1]
    /\ pyodide' = "handle"
    /\ isLoading' = FALSE
    /\ status' = ReadyStatus
    /\ initPc' = "done"
    /\ UNCHANGED << output, plots, isRunning, currentCode, editorText, active,
                    nextRun, results >>

ConfigureFail ==
    /\ initPc = "configure"
    /\ InitCatch(BackendMsg)
    /\ UNCHANGED << output, plots, isRunning, currentCode, editorText, engine,
                    active, nextRun, results >>

(* -------------------------------------------------------- the Run button *)
\* the button is rendered only when isLoading is false
ButtonRendered == ~isLoading

\* a button that is never disabled
ButtonDisabled_Never == FALSE

\* disabled={isRunning}
ButtonDisabled == isRunning

CanClick == ButtonRendered /\ ~ButtonDisabled

(* -------------------------------------------------------------- runPython *)
Drop(f, r) == [x \in DOMAIN f \ { r } |-> f[x]]

\* a finally block that leaves isRunning set
RunFinally_KeepsFlag(r, exit, msg) ==
    /\ isRunning' = isRunning
    /\ active' = Drop(active, r)
    /\ results' = Append(results, [run |-> r, exit |-> exit, msg |-> msg,
                                   wrote |-> engine'.buf])

\* finally: setIsRunning(false); the invocation is over
RunFinally(r, exit, msg) ==
    /\ isRunning' = FALSE
    /\ active' = Drop(active, r)
    /\ results' = Append(results, [run |-> r, exit |-> exit, msg |-> msg,
                                   wrote |-> engine'.buf])

\* a catch block that only logs the error
RunCatch_LogOnly(r, exit, msg) ==
    /\ output' = output
    /\ RunFinally(r, exit, msg)

\* catch (err): setOutput(`Error: ...`), then finally
RunCatch(r, exit, msg) ==
    /\ output' = ErrorText(msg)
    /\ RunFinally(r, exit, msg)

\* the setters without setIsRunning(true)
RunStart_NoFlag ==
    /\ isRunning' = isRunning
    /\ output' = RunningText
    /\ plots' = << >>

\* the setters without setPlots([])
RunStart_KeepsPlots ==
    /\ isRunning' = TRUE
    /\ output' = RunningText
    /\ plots' = plots

\* setIsRunning(true); setOutput("Running..."); setPlots([])
RunStart ==
    /\ isRunning' = TRUE
    /\ output' = RunningText
    /\ plots' = << >>

\* onClick={runPython}: the guard, the three setters, the first call
runPython ==
    /\ CanClick
    /\ nextRun <= MaxRuns
    /\ IF pyodide = "null"
       THEN UNCHANGED vars
       ELSE /\ RunStart
            /\ active' = active @@ (nextRun :> [pc |-> "redirect",
                                                code |-> currentCode])
            /\ nextRun' = nextRun + 1
            /\ UNCHANGED << isLoading, pyodide, status, currentCode,
                            editorText, initPc, engine, results >>

\* a redirect that keeps the buffer of the previous run
RedirectOk_ReusesBuffer(r) ==
    /\ active[r].pc = "redirect"
    /\ engine' = [engine EXCEPT !.redirected = TRUE]
    /\ active' = [active EXCEPT ![r].pc = "exec"]
    /\ UNCHANGED << output, plots, isLoading, isRunning, pyodide, status,
                    currentCode, editorText, initPc, nextRun, results >>

\* sys.stdout = StringIO() returned
RedirectOk(r) ==
    /\ active[r].pc = "redirect"
    /\ engine' = [engine EXCEPT !.redirected = TRUE, !.buf = << >>]
    /\ active' = [active EXCEPT ![r].pc = "exec"]
    /\ UNCHANGED << output, plots, isLoading, isRunning, pyodide, status,
                    currentCode, editorText, initPc, nextRun, results >>

RedirectFail(r) ==
    /\ active[r].pc = "redirect"
    /\ engine' = engine
    /\ RunCatch(r, "redirect", EngineMsg)
    /\ UNCHANGED << plots, isLoading, pyodide, status, currentCode,
                    editorText, initPc, nextRun >>

\* the source read from the latest state instead of the handler's closure
RunSource_Live(r) == currentCode

\* currentCode at line 77 is the value the handler closed over when the
\* click reached it
RunSource(r) == active[r].code

\* await pyodide.runPythonAsync(currentCode)
ExecStep(r) ==
    /\ active[r].pc = "exec"
    /\ LET res == RunUserCode(engine, RunSource(r), r) IN
       /\ engine' = res.eng
       /\ IF res.raised
          THEN /\ RunCatch(r, "exec", UserMsg)
               /\ UNCHANGED plots
          ELSE /\ active' = [active EXCEPT ![r].pc = "getvalue"]
               /\ UNCHANGED << output, plots, isRunning, results >>
    /\ UNCHANGED << isLoading, pyodide, status, currentCode, editorText,
                    initPc, nextRun >>

\* the text passed on without a default
OrCompleted_NoDefault(stdout) == stdout

\* stdout || "Execution completed"
OrCompleted(stdout) == IF stdout = << >> THEN ExecutionCompleted ELSE stdout

\* sys.stdout.getvalue() returned: setOutput(...)
GetValueOk(r) ==
    /\ active[r].pc = "getvalue"
    /\ output' = OrCompleted(engine.buf)
    /\ active' = [active EXCEPT ![r].pc = "figures"]
    /\ UNCHANGED << plots, isLoading, isRunning, pyodide, status, currentCode,
                    editorText, initPc, engine, nextRun, results >>

GetValueFail(r) ==
    /\ active[r].pc = "getvalue"
    /\ engine' = engine
    /\ RunCatch(r, "getvalue", EngineMsg)
    /\ UNCHANGED << plots, isLoading, pyodide, status, currentCode,
                    editorText, initPc, nextRun >>

\* the extraction snippet returned plot_data: setPlots(figures), finally
FiguresOk(r) ==
    /\ active[r].pc = "figures"
    /\ LET nums == get_fignums(engine.figs)
           res == PlotData(engine.figs, nums, Len(nums))
       IN  /\ engine' = [engine EXCEPT !.figs = res.figs]
           /\ plots' = res.data
    /\ RunFinally(r, "ok", << >>)
    /\ UNCHANGED << output, isLoading, pyodide, status, currentCode,
                    editorText, initPc, nextRun >>

\* the extraction snippet raised after saving and closing j figures
FiguresFail(r) ==
    /\ active[r].pc = "figures"
    /\ \E j \in 0..Cardinality(engine.figs) :
          LET nums == get_fignums(engine.figs)
              res == PlotData(engine.figs, nums, j)
          IN  engine' = [engine EXCEPT !.figs = res.figs]
    /\ RunCatch(r, "figures", EngineMsg)
    /\ UNCHANGED << plots, isLoading, pyodide, status, currentCode,
                    editorText, initPc, nextRun >>

(* ----------------------------------------------------- handleEditorChange *)
\* if (value) setCurrentCode(value): the empty string is falsy
EditorChange(values) ==
    \E value \in values :
        /\ value # editorText
        /\ editorText' = value
        /\ currentCode' = IF value # << >> THEN value ELSE currentCode
        /\ UNCHANGED << output, plots, isLoading, isRunning, pyodide, status,
                        initPc, engine, active, nextRun, results >>

handleEditorChange == EditorChange(Texts)

(* ------------------------------------------------------------------ Next *)
Next ==
    \/ InitStart
    \/ LoadPyodideOk
    \/ LoadPyodideFail
    \/ LoadPackageOk
    \/ LoadPackageFail
    \/ ConfigureOk
    \/ ConfigureFail
    \/ runPython
    \/ \E r \in DOMAIN active : RedirectOk(r)
    \/ \E r \in DOMAIN active : RedirectFail(r)
    \/ \E r \in DOMAIN active : ExecStep(r)
    \/ \E r \in DOMAIN active : GetValueOk(r)
    \/ \E r \in DOMAIN active : GetValueFail(r)
    \/ \E r \in DOMAIN active : FiguresOk(r)
    \/ \E r \in DOMAIN active : FiguresFail(r)
    \/ handleEditorChange

Spec == Init /\ [][Next]_vars

\* a step of a runPython invocation: an awaited engine call settles and the
\* handler continues
RunStep ==
    \E r \in DOMAIN active :
        \/ RedirectOk(r) \/ RedirectFail(r)
        \/ ExecStep(r)
        \/ GetValueOk(r) \/ GetValueFail(r)
        \/ FiguresOk(r) \/ FiguresFail(r)

\* the texts the editor is given where behaviours are checked to the end
LiveTexts ==
    { << >>,
      defaultCode,
      << PrintStmt >>,
      << FigureStmt(0), RaiseStmt >> }

LiveNext ==
    \/ InitStart
    \/ LoadPyodideOk
    \/ LoadPyodideFail
    \/ LoadPackageOk
    \/ LoadPackageFail
    \/ ConfigureOk
    \/ ConfigureFail
    \/ runPython
    \/ \E r \in DOMAIN active : RedirectOk(r)
    \/ \E r \in DOMAIN active : RedirectFail(r)
    \/ \E r \in DOMAIN active : ExecStep(r)
    \/ \E r \in DOMAIN active : GetValueOk(r)
    \/ \E r \in DOMAIN active : GetValueFail(r)
    \/ \E r \in DOMAIN active : FiguresOk(r)
    \/ \E r \in DOMAIN active : FiguresFail(r)
    \/ EditorChange(LiveTexts)

\* every engine call returns, and the continuation of a settled promise runs
LiveSpec == Init /\ [][LiveNext]_vars /\ WF_vars(RunStep)

(* ----------------------------------------------------------------- phase *)
\* the session phase as the component's state shows it
Phase ==
    IF isLoading
    THEN IF status = Initializing THEN "Uninitialized"
         ELSE IF IsErrorText(status) THEN "Failed"
         ELSE "Loading"
    ELSE IF isRunning THEN "Running" ELSE "Ready"

TypeOK ==
    /\ isLoading \in BOOLEAN
    /\ isRunning \in BOOLEAN
    /\ pyodide \in { "null", "handle" }
    /\ currentCode \in Texts
    /\ editorText \in Texts
    /\ nextRun \in 1..(MaxRuns + 1)
    /\ DOMAIN active \subseteq 1..MaxRuns

(* ---------------------------------------------------- shared vocabulary *)
Idle == DOMAIN active = {}

Finished == Len(results) >= 1

LastRun == results[Len(results)]

NoRaise(code) == \A k \in DOMAIN code : code[k].op # "raise"

\* t occurs in s as a contiguous run of tokens
Contains(s, t) ==
    \E i \in 0..(Len(s) - Len(t)) : \A k \in 1..Len(t) : s[i + k] = t[k]

\* figure a was created before figure b
CreatedBefore(a, b) == a.run < b.run \/ (a.run = b.run /\ a.k < b.k)

(* --------------------------------------------------------------------- C1 *)
\* C1: while a run is in flight no further run is admitted, none is queued,
\* the source the in-flight run holds is left alone, and at most one
\* runPython invocation is active after every step.
SingleFlightStep ==
    /\ Cardinality(DOMAIN active') <= 1
    /\ isRunning =>
          /\ nextRun' = nextRun
          /\ DOMAIN active' \subseteq DOMAIN active
          /\ \A r \in DOMAIN active' : active'[r].code = active[r].code

SingleFlight == [][SingleFlightStep]_vars

\* a second run is in flight, past its first await, and the user has edited
SingleFlightWitness ==
    /\ isRunning
    /\ Finished
    /\ \E r \in DOMAIN active :
          active[r].pc = "figures" /\ active[r].code # currentCode

(* --------------------------------------------------------------------- C2 *)
\* C2: a run in which the engine raised leaves the session Ready with the
\* handle stored and that run's error message shown, the button can be
\* clicked again, and a later run of a source that raises nothing is not
\* sent to the catch block by executing it and ends with a success text.
RecoveredState ==
    \A i \in DOMAIN results :
        results[i].exit # "ok" =>
            /\ Phase \in { "Ready", "Running" }
            /\ pyodide = "handle"
            /\ (i = Len(results) /\ Idle) =>
                  /\ Phase = "Ready"
                  /\ output = ErrorText(results[i].msg)
                  /\ CanClick
            /\ \A j \in DOMAIN results :
                  (j > i /\ j = Len(results) /\ Idle /\ results[j].exit = "ok")
                      => output = OrCompleted(engine.buf)

RecoveredStep ==
    \A r \in DOMAIN active :
        ( /\ active[r].pc = "exec"
          /\ NoRaise(active[r].code)
          /\ \E i \in DOMAIN results : results[i].exit # "ok" )
        => ( r \in DOMAIN active' /\ active'[r].pc \in { "exec", "getvalue" } )

RunFailureRecoverable == [][RecoveredStep /\ RecoveredState']_vars

\* a failed run was followed by a run that succeeded
RunFailureRecoverableWitness ==
    /\ Len(results) = 2
    /\ results[1].exit = "exec"
    /\ results[2].exit = "ok"
    /\ Idle
    /\ output = << "out" >>

(* --------------------------------------------------------------------- C3 *)
\* C3: once a step of initPyodide has failed, no handle is stored, the phase
\* is Failed and shows the message, the button cannot be clicked, no run is
\* ever admitted, and no later step changes anything but the editor's text.
LoadFailed ==
    /\ Phase = "Failed"
    /\ \E m \in LoadMsgs : status = ErrorText(m)
    /\ pyodide = "null"
    /\ ~CanClick
    /\ Idle
    /\ nextRun = 1
    /\ ~engine.redirected

LoadFailureStep ==
    /\ initPc' = "failed" => LoadFailed'
    /\ initPc = "failed" =>
          UNCHANGED << output, plots, isLoading, isRunning, pyodide, status,
                       initPc, engine, active, nextRun, results >>

LoadFailureTerminal == [][LoadFailureStep]_vars

\* the backend configuration failed and the user has edited since
LoadFailureTerminalWitness ==
    /\ initPc = "failed"
    /\ status = ErrorText(BackendMsg)
    /\ engine.packages
    /\ currentCode = << PrintStmt >>

(* --------------------------------------------------------------------- C4 *)
\* C4: whenever a run has ended and none is in flight, sys.stdout is no
\* longer redirected and the engine holds no open figure.
ScopedCleanup ==
    (Finished /\ Idle) => (~engine.redirected /\ engine.figs = NoFigs)

(* --------------------------------------------------------------------- C5 *)
\* C5: every image in the result of a successful run shows a figure that
\* this run created, never a figure of an earlier run.
NoFigureLeak ==
    (Finished /\ Idle /\ LastRun.exit = "ok") =>
        \A i \in DOMAIN plots : plots[i].run = LastRun.run

(* --------------------------------------------------------------------- C6 *)
\* C6: when the user source raised after writing text, the result of that
\* run contains the text written so far next to the error message.
PartialOutputKept ==
    (Finished /\ Idle /\ LastRun.exit = "exec" /\ engine.buf # << >>) =>
        Contains(output, engine.buf)

(* --------------------------------------------------------------------- C7 *)
\* C7: in every state the text and the images shown belong to one run: no
\* image of another run is shown next to the text of the run that owns the
\* result (the run in flight, else the last finished one).
ResultOwner ==
    IF Idle THEN LastRun.run ELSE CHOOSE r \in DOMAIN active : TRUE

NoMixedResult ==
    \A i \in DOMAIN plots :
        /\ ~Idle \/ Finished
        /\ plots[i].run = ResultOwner

(* --------------------------------------------------------------------- C8 *)
\* C8: the phase moves only along Uninitialized -> Loading -> Ready <->
\* Running and Loading -> Failed; the load starts only from Uninitialized,
\* a run is admitted only from Ready, and Running goes back to Ready only
\* with a result recorded.
PhaseEdges ==
    { << "Uninitialized", "Loading" >>, << "Loading", "Ready" >>,
      << "Loading", "Failed" >>, << "Ready", "Running" >>,
      << "Running", "Ready" >> }

PhaseStep ==
    /\ Phase' # Phase => << Phase, Phase' >> \in PhaseEdges
    /\ (initPc = "mount" /\ initPc' # "mount") => Phase = "Uninitialized"
    /\ nextRun' # nextRun => (Phase = "Ready" /\ Phase' = "Running")
    /\ (Phase = "Running" /\ Phase' = "Ready") =>
          /\ Len(results') = Len(results) + 1
          /\ output' # RunningText
    /\ Len(results') # Len(results) => (Phase = "Running" /\ Phase' = "Ready")

PhaseTransitions == [][PhaseStep]_vars

\* the session is Running for the second time
PhaseTransitionsWitness ==
    /\ Phase = "Running"
    /\ Len(results) = 1
    /\ nextRun = 3

(* --------------------------------------------------------------------- C9 *)
\* C9: Running implies exactly one invocation in flight and a stored
\* handle; Ready implies a stored handle and no invocation in flight; the
\* handle is stored exactly when initPyodide has finished successfully;
\* isRunning is never true while the handle is null.
PhaseHandleInvariant ==
    /\ isRunning => (Cardinality(DOMAIN active) = 1 /\ pyodide = "handle")
    /\ Phase = "Running" <=> ~Idle
    /\ Phase = "Ready" => (pyodide = "handle" /\ Idle)
    /\ pyodide = "handle" <=> initPc = "done"
    /\ pyodide = "handle" <=> ~isLoading

\* the session is Ready again after two runs
PhaseHandleInvariantWitness ==
    /\ Phase = "Ready"
    /\ Len(results) = 2
    /\ pyodide = "handle"

(* -------------------------------------------------------------------- C10 *)
\* C10: the images of a successful run are in figure creation order.
ImagesInCreationOrder ==
    (Finished /\ Idle /\ LastRun.exit = "ok") =>
        \A i, j \in DOMAIN plots : i < j => CreatedBefore(plots[i], plots[j])

(* -------------------------------------------------------------------- C11 *)
\* C11: the source a run holds never changes while the run is in flight, the
\* source it executes is the one taken when it was triggered whatever the
\* editor did since, an editor change touches nothing of the run or of the
\* result, and the next run takes the edited text.
ExecutedWith(r, code) ==
    LET res == RunUserCode(engine, code, r) IN
    /\ engine' = res.eng
    /\ res.raised <=> r \notin DOMAIN active'

SnapshotStep ==
    /\ \A r \in DOMAIN active \cap DOMAIN active' :
          active'[r].code = active[r].code
    /\ \A r \in DOMAIN active :
          ( /\ active[r].pc = "exec"
            /\ (r \in DOMAIN active' => active'[r].pc # "exec") )
          => ExecutedWith(r, active[r].code)
    /\ editorText' # editorText =>
          UNCHANGED << output, plots, isRunning, engine, active, nextRun,
                       results >>
    /\ nextRun' # nextRun => active'[nextRun].code = currentCode

RequestIsSnapshot == [][SnapshotStep]_vars

\* a run that printed has executed, and the editor now holds another text
RequestIsSnapshotWitness ==
    \E r \in DOMAIN active :
        /\ active[r].pc = "getvalue"
        /\ active[r].code = << PrintStmt >>
        /\ engine.buf = << "out" >>
        /\ currentCode = << RaiseStmt >>

(* -------------------------------------------------------------------- C12 *)
\* C12: the source a run is admitted with is the text the editor holds at
\* that moment, the empty text included.
SubmitsEditorTextStep ==
    nextRun' # nextRun => active'[nextRun].code = editorText

SubmitsEditorText == [][SubmitsEditorTextStep]_vars

(* -------------------------------------------------------------------- C13 *)
\* C13: while the phase is Running nothing of the in-flight run's outcome is
\* visible: the text is still the Running... text and there are no images.
NoPartialResult ==
    Phase = "Running" => (output = RunningText /\ plots = << >>)

(* -------------------------------------------------------------------- C14 *)
\* C14: the backend is switched exactly once, by initPyodide and before the
\* handle is stored; as long as it is not switched no run is admitted, the
\* button cannot be clicked and the engine has executed nothing of a run.
BackendConfigured ==
    /\ engine.switches <= 1
    /\ pyodide = "handle" => (engine.backend = "agg" /\ engine.switches = 1)
    /\ ~Idle => engine.backend = "agg"
    /\ engine.backend # "agg" =>
          /\ ~CanClick
          /\ nextRun = 1
          /\ ~engine.redirected
          /\ engine.figs = NoFigs

BackendStep ==
    engine'.switches # engine.switches =>
        /\ initPc = "configure"
        /\ engine.loaded /\ engine.packages
        /\ pyodide = "null"
        /\ Phase = "Loading" /\ Phase' = "Ready"

BackendConfiguredFirst == [][BackendStep /\ BackendConfigured']_vars

\* a figure drawn by the first run's source has been rendered
BackendConfiguredFirstWitness ==
    /\ engine.switches = 1
    /\ Len(results) = 1
    /\ results[1].exit = "ok"
    /\ Len(plots) = 2

(* -------------------------------------------------------------------- C15 *)
\* C15: when the user source is about to execute, sys.stdout is a fresh,
\* empty buffer, and the text of a run that ends in success is exactly what
\* the print statements of its own source wrote (or the placeholder).
Written(code) ==
    [i \in 1..Cardinality({ k \in DOMAIN code : code[k].op = "print" })
        |-> "out"]

AttributionStep ==
    /\ \A r \in DOMAIN active' :
          active'[r].pc = "exec" =>
              (engine'.redirected /\ engine'.buf = << >>)
    /\ \A r \in DOMAIN active :
          (r \notin DOMAIN active' /\ results'[Len(results')].exit = "ok")
              => output' = OrCompleted(Written(active[r].code))

OutputAttribution == [][AttributionStep]_vars

\* a run that wrote text and failed, then a successful run that wrote none
OutputAttributionWitness ==
    /\ Idle
    /\ Len(results) = 2
    /\ results[1].exit = "exec" /\ results[1].wrote = << "out" >>
    /\ results[2].exit = "ok"
    /\ output = ExecutionCompleted

(* -------------------------------------------------------------------- C16 *)
\* C16: while the session is Running an engine call of the run is pending,
\* and, every pending engine call settling, each admitted run leads to the
\* phase Ready with that run's result recorded.
RunCompletes ==
    /\ [](isRunning => ENABLED RunStep)
    /\ \A r \in 1..MaxRuns :
          (r \in DOMAIN active) ~>
              (Phase = "Ready" /\ \E i \in DOMAIN results : results[i].run = r)

\* the first run ended when its redirect raised
RunCompletesWitness ==
    /\ Phase = "Ready"
    /\ Len(results) = 1
    /\ results[1].exit = "redirect"
    /\ output = ErrorText(EngineMsg)

(* -------------------------------------------------------------------- C17 *)
\* C17: when the session is Ready after a run, the result is either the
\* success of that run (its text, not an error text, with the images it
\* returned) or that run's error message with no image at all, whichever
\* step raised.
ResultShape ==
    (Finished /\ Idle) =>
        IF LastRun.exit = "ok"
        THEN /\ ~IsErrorText(output)
             /\ output # RunningText
        ELSE /\ LastRun.exit \in { "redirect", "exec", "getvalue", "figures" }
             /\ output = ErrorText(LastRun.msg)
             /\ plots = << >>

\* a run that returned images was followed by a run whose extraction raised
ResultShapeWitness ==
    /\ Idle
    /\ Len(results) = 2
    /\ results[1].exit = "ok"
    /\ results[2].exit = "figures"
    /\ plots = << >>

====
